---- MODULE Spec2Model ----
(***************************************************************************)
(* Model of the book-catalog REST facade (src/app.js and src/index.js).    *)
(*                                                                         *)
(* JavaScript values are tagged records; JavaScript strings are sequences  *)
(* of one-character strings, so that Number(), String() and slice() are    *)
(* computed on the characters.  Object keys (field names) are TLA+ strings.*)
(* The alphabet of the model is the decimal digits, a few letters and the  *)
(* space; numbers are the non-negative integers and NaN.                   *)
(***************************************************************************)
EXTENDS Integers, Sequences, FiniteSets, TLC

VARIABLES
    entry,      \* which file is the running entry point: "app" or "index"
    process,    \* "running" or "exited"
    doc,        \* the module-level doc: "ready" (a GoogleSpreadsheet) or "null"
    isLoaded,   \* doc.isLoaded
    store,      \* the rows of the sheet, in enumeration order
    pc,         \* per request slot: where its handler is
    req,        \* per request slot: the request (method, path key, body)
    work,       \* per request slot: the handler's locals (bookData / located row)
    resp,       \* per request slot: the response sent (status 0: none yet)
    calls,      \* per request slot: the store calls the handler has issued
    alone,      \* per request slot: no other request was in flight during it
    started,    \* number of requests started so far
    fn          \* scratch for the pure-function specifications

vars == <<entry, process, doc, isLoaded, store, pc, req, work, resp, calls,
          alone, started, fn>>

-----------------------------------------------------------------------------
(* Bounds of the model *)

MaxRequests == 2

-----------------------------------------------------------------------------
(* JavaScript values *)

Undef == [t |-> "undefined", n |-> 0, s |-> <<>>]
Null == [t |-> "null", n |-> 0, s |-> <<>>]
NaN == [t |-> "NaN", n |-> 0, s |-> <<>>]
Num(n) == [t |-> "number", n |-> n, s |-> <<>>]
Str(s) == [t |-> "string", n |-> 0, s |-> s]
Bool(b) == [t |-> "boolean", n |-> IF b THEN 1 ELSE 0, s |-> <<>>]

DigitChars == <<"0", "1", "2", "3", "4", "5", "6", "7", "8", "9">>

IsDigit(c) == \E i \in 1..10 : DigitChars[i] = c

DigitVal(c) == (CHOOSE i \in 1..10 : DigitChars[i] = c) - 1

RECURSIVE DigitsValue(_)
DigitsValue(s) ==
    IF s = <<>> THEN 0
    ELSE DigitsValue(SubSeq(s, 1, Len(s) - 1)) * 10 + DigitVal(s[Len(s)])

RECURSIVE Trim(_)
Trim(s) ==
    IF s = <<>> THEN s
    ELSE IF s[1] = " " THEN Trim(Tail(s))
    ELSE IF s[Len(s)] = " " THEN Trim(SubSeq(s, 1, Len(s) - 1))
    ELSE s

\* Number(<string>): whitespace is trimmed, the empty string is 0, a run of
\* decimal digits is its value, anything else over the model's alphabet is NaN.
StringToNumber(s) ==
    LET t == Trim(s) IN
    IF t = <<>> THEN Num(0)
    ELSE IF \A i \in 1..Len(t) : IsDigit(t[i]) THEN Num(DigitsValue(t))
    ELSE NaN

\* Number(value)
ToNumber(v) ==
    CASE v.t = "undefined" -> NaN
      [] v.t = "null" -> Num(0)
      [] v.t = "boolean" -> Num(v.n)
      [] v.t = "number" -> v
      [] v.t = "NaN" -> NaN
      [] v.t = "string" -> StringToNumber(v.s)

RECURSIVE NumberToString(_)
NumberToString(n) ==
    IF n < 10 THEN <<DigitChars[n + 1]>>
    ELSE NumberToString(n \div 10) \o <<DigitChars[(n % 10) + 1]>>

\* String(value), as a character sequence
ToStr(v) ==
    CASE v.t = "undefined" -> <<"u", "n", "d", "e", "f", "i", "n", "e", "d">>
      [] v.t = "null" -> <<"n", "u", "l", "l">>
      [] v.t = "boolean" -> IF v.n = 1 THEN <<"t", "r", "u", "e">>
                            ELSE <<"f", "a", "l", "s", "e">>
      [] v.t = "number" -> NumberToString(v.n)
      [] v.t = "NaN" -> <<"N", "a", "N">>
      [] v.t = "string" -> v.s

\* isNaN(x) for x a number value
IsNaN(v) == v.t = "NaN"

\* the truthiness of a value: !value is ~Truthy(value)
Truthy(v) ==
    CASE v.t = "undefined" -> FALSE
      [] v.t = "null" -> FALSE
      [] v.t = "boolean" -> v.n = 1
      [] v.t = "number" -> v.n # 0
      [] v.t = "NaN" -> FALSE
      [] v.t = "string" -> v.s # <<>>

-----------------------------------------------------------------------------
(* Objects: a request body is the sequence of its key/value pairs in        *)
(* insertion order (Object.keys order); a sheet row is a function from the  *)
(* keys that were set on it to their values.                                *)

Pair(k, v) == [k |-> k, v |-> v]

HasKey(body, key) == \E i \in 1..Len(body) : body[i].k = key

\* body[key]
Field(body, key) ==
    IF HasKey(body, key)
    THEN body[CHOOSE i \in 1..Len(body) : body[i].k = key].v
    ELSE Undef

\* body[key] = value
SetField(body, key, value) ==
    IF HasKey(body, key)
    THEN [i \in 1..Len(body) |->
            IF body[i].k = key THEN Pair(key, value) ELSE body[i]]
    ELSE Append(body, Pair(key, value))

Keys(body) == {body[i].k : i \in 1..Len(body)}

\* the object a body denotes, as handed to sheet.addRow
AsRow(body) == [key \in Keys(body) |-> Field(body, key)]

\* row.get(key)
Get(row, key) == IF key \in DOMAIN row THEN row[key] ELSE Undef

\* row.set(key, value)
Set(row, key, value) ==
    [k \in DOMAIN row \cup {key} |-> IF k = key THEN value ELSE row[k]]

-----------------------------------------------------------------------------
(* The program's constants and pure helpers *)

REQUIRED_FIELDS_FOR_BOOK == <<"Class", "Book Name", "Book Price">>

NUMERIC_FIELDS == {"SrNo", "Volume", "Book Price"}

\* s.slice(-k)
SliceLast(s, k) == IF Len(s) <= k THEN s ELSE SubSeq(s, Len(s) - k + 1, Len(s))

\* generateBackendSrNo, given Date.now().toString() and
\* Math.floor(Math.random() * 1000)
generateBackendSrNo(nowString, offset) ==
    LET uniquePart == SliceLast(nowString, 6)
    IN  Num(ToNumber(Str(uniquePart)).n + offset)

\* Missing with `!(field in bookData)` for `!bookData[field]`
MissingAbsentOnly(body) ==
    SelectSeq(REQUIRED_FIELDS_FOR_BOOK, LAMBDA field : ~HasKey(body, field))

\* REQUIRED_FIELDS_FOR_BOOK.filter(field => !bookData[field])
Missing(body) ==
    SelectSeq(REQUIRED_FIELDS_FOR_BOOK, LAMBDA field : ~Truthy(Field(body, field)))

\* normalizeApp without the isNaN test
normalizeAppKeepsNaN(key, value) ==
    IF key \in NUMERIC_FIELDS
    THEN IF value = Null \/ value = Str(<<>>) THEN Num(0) ELSE ToNumber(value)
    ELSE IF value = Null \/ value = Undef THEN Str(<<>>) ELSE Str(ToStr(value))

\* the body of the forEach callback of app.js, without the rowIndex skip:
\* the value handed to rowToUpdate.set
normalizeApp(key, value) ==
    IF key \in NUMERIC_FIELDS
    THEN LET numValue == ToNumber(value)
         IN  IF IsNaN(numValue) \/ value = Null \/ value = Str(<<>>)
             THEN Num(0) ELSE numValue
    ELSE IF value = Null \/ value = Undef THEN Str(<<>>) ELSE Str(ToStr(value))

\* the same callback in index.js
normalizeIndex(key, value) ==
    IF key \in {"SrNo", "Volume", "Book Price"}
    THEN IF value = Null \/ value = Undef \/ value = Str(<<>>)
            \/ IsNaN(ToNumber(value))
         THEN Num(0) ELSE ToNumber(value)
    ELSE IF value = Null \/ value = Undef THEN Str(<<>>) ELSE Str(ToStr(value))

normalizeOf(e, key, value) ==
    IF e = "app" THEN normalizeApp(key, value) ELSE normalizeIndex(key, value)

\* Object.keys(updatedData).forEach(...) over the pairs from position i on
RECURSIVE ApplyFrom(_, _, _, _)
ApplyFrom(e, row, body, i) ==
    IF i > Len(body) THEN row
    ELSE IF body[i].k = "rowIndex" THEN ApplyFrom(e, row, body, i + 1)
    ELSE ApplyFrom(e, Set(row, body[i].k, normalizeOf(e, body[i].k, body[i].v)),
                   body, i + 1)

\* ApplyUpdate writing the body's fields onto a blank row
ApplyReplace(e, row, body) == ApplyFrom(e, <<>>, body, 1)

ApplyUpdate(e, row, body) == ApplyFrom(e, row, body, 1)

\* the keys the forEach hands to rowToUpdate.set, in order
SetKeys(body) == SelectSeq([i \in 1..Len(body) |-> body[i].k],
                           LAMBDA k : k # "rowIndex")

\* FindRow with `=` for `===` in the callback: the first row, if any
FindRowAssign(rows, srNo) == IF rows = <<>> THEN 0 ELSE 1

\* FindRow with rows.findLast for rows.find: the last match
FindRowLast(rows, srNo) ==
    LET hits == {i \in 1..Len(rows) : ToStr(Get(rows[i], "SrNo")) = srNo}
    IN  IF hits = {} THEN 0 ELSE CHOOSE i \in hits : \A j \in hits : i >= j

\* rows.find(row => String(row.get('SrNo')) === String(srNo)): the position
\* of the first match, 0 when there is none
FindRow(rows, srNo) ==
    LET hits == {i \in 1..Len(rows) : ToStr(Get(rows[i], "SrNo")) = srNo}
    IN  IF hits = {} THEN 0 ELSE CHOOSE i \in hits : \A j \in hits : i <= j

\* value.toLowerCase(), over the letters of the model's alphabet
LowerChar(c) ==
    CASE c = "A" -> "a" [] c = "B" -> "b" [] c = "I" -> "i" [] OTHER -> c

ToLowerCase(s) == [i \in 1..Len(s) |-> LowerChar(s[i])]

\* s.includes(part)
Includes(s, part) ==
    \E i \in 0..(Len(s) - Len(part)) : SubSeq(s, i + 1, i + Len(part)) = part

\* the columns the GET handler maps of each row, after rowIndex
BookColumns(e) ==
    IF e = "app"
    THEN {"Class", "SrNo", "Book Name", "Volume", "Date", "Book Price", "Room",
          "Kapat", "other1", "other2", "Writer", "Reader"}
    ELSE {"Class", "SrNo", "Book Name", "Volume", "Date", "Book Price", "Room",
          "Kapat", "other1", "other2"}

\* rows.map(row => ({rowIndex: row.rowNumber, Class: row.get('Class'), ...})):
\* the row at position i of the data has rowNumber i + 1 (row 1 is the header)
MapBooks(e, rows) ==
    [i \in 1..Len(rows) |->
        [c \in BookColumns(e) \cup {"rowIndex"} |->
            IF c = "rowIndex" THEN Num(i + 1) ELSE Get(rows[i], c)]]

\* the class filter and the search filter of the GET handler
FilterBooks(books, query) ==
    LET classFilter == Field(query, "class")
        searchTerm == Field(query, "search")
        byClass == IF Truthy(classFilter) /\ classFilter # Str(<<"A", "l", "l">>)
                   THEN SelectSeq(books, LAMBDA book :
                            ToLowerCase(ToStr(book["Class"]))
                                = ToLowerCase(ToStr(classFilter)))
                   ELSE books
    IN  IF Truthy(searchTerm)
        THEN SelectSeq(byClass, LAMBDA book :
                \E c \in DOMAIN book :
                    Includes(ToLowerCase(ToStr(book[c])),
                             ToLowerCase(ToStr(searchTerm))))
        ELSE byClass

\* the module-level try/catch around the sheet setup
BootDoc(configOk) == IF configOk THEN "ready" ELSE "null"

\* app.js keeps the process up with doc = null; index.js calls process.exit(1)
BootProcess(e, configOk) ==
    IF ~configOk /\ e = "index" THEN "exited" ELSE "running"

\* bookData after `if (!bookData.SrNo) bookData.SrNo = generateBackendSrNo()`
UsesFallback(body) == ~Truthy(Field(body, "SrNo"))

PostData(body, nowString, offset) ==
    IF UsesFallback(body)
    THEN SetField(body, "SrNo", generateBackendSrNo(nowString, offset))
    ELSE body

-----------------------------------------------------------------------------
(* Responses *)

NoResp == [status |-> 0, missing |-> <<>>, srNo |-> Undef, books |-> <<>>,
           error |-> ""]

Resp(status) == [NoResp EXCEPT !.status = status]

Resp400(missing) == [NoResp EXCEPT !.status = 400, !.missing = missing]

Resp201(srNo) == [NoResp EXCEPT !.status = 201, !.srNo = srNo]

Resp200Books(books) == [NoResp EXCEPT !.status = 200, !.books = books]

Resp500(error) == [NoResp EXCEPT !.status = 500, !.error = error]

\* what the handler's catch block sends: every catch block answers 500 with
\* error.message, except the PUT handler of index.js, whose catch only logs
CatchResponse(e, method, error) ==
    IF e = "index" /\ method = "PUT" THEN NoResp ELSE Resp500(error)

InitError == "API Initialization failed"
IOError == "store call failed"

-----------------------------------------------------------------------------
(* The inputs the model draws from *)

sI == <<"I">>
sBalbharati == <<"B", "a", "l", "b", "h", "a", "r", "a", "t", "i">>
s120 == <<"1", "2", "0">>
s42 == <<"4", "2">>
s7 == <<"7">>
s0 == <<"0">>
sAbc == <<"a", "b", "c">>

\* the body of the example scenario's POST: valid, no SrNo
BodyExample ==
    <<Pair("Class", Str(sI)), Pair("Book Name", Str(sBalbharati)),
      Pair("Book Price", Str(s120))>>

\* the body of the example scenario's PUT
BodyExamplePut ==
    <<Pair("Class", Str(sI)), Pair("Book Name", Str(sBalbharati)),
      Pair("Book Price", Str(<<>>)), Pair("Volume", Str(sAbc))>>

BodySrNo0 == Append(BodyExample, Pair("SrNo", Num(0)))

BodySrNo42 == BodyExample \o <<Pair("SrNo", Num(42)), Pair("rowIndex", Num(2))>>

BodyVolume ==
    <<Pair("Volume", Str(sAbc)), Pair("Class", Str(sI)),
      Pair("Book Name", Str(sBalbharati)), Pair("Book Price", Num(42)),
      Pair("Date", Null)>>

BodyWriter == BodyExample \o <<Pair("Writer", Num(5)), Pair("SrNo", Str(s7))>>

\* Class null and Book Price 0 are falsy; the body lists them in another
\* order than REQUIRED_FIELDS_FOR_BOOK
BodyFalsy ==
    <<Pair("Book Price", Num(0)), Pair("Class", Null),
      Pair("Book Name", Str(sBalbharati))>>

\* the bodies sent to POST and to PUT
PostBodies == {BodyExample, BodySrNo0, BodySrNo42, BodyFalsy}

PutBodies == {BodyExamplePut, BodySrNo42, BodyVolume, BodyWriter, BodyFalsy}

PathKeys == {s42, s7}

Queries == {<<>>, <<Pair("class", Str(<<"A", "l", "l">>))>>,
            <<Pair("class", Str(<<"i">>)), Pair("search", Str(s42))>>}

\* Date.now().toString() and Math.floor(Math.random() * 1000)
Clocks == {<<"1", "7", "0", "0", "0", "0", "0", "0", "0", "0", "0", "0", "0">>,
           <<"1", "7", "0", "0", "0", "0", "0", "0", "0", "0", "0", "4", "2">>}

Offsets == {0, 999}

\* only the POST handler reads the clock and draws a random number
ClocksRead(r) == IF r.method = "POST" THEN Clocks ELSE {<<>>}
OffsetsRead(r) == IF r.method = "POST" THEN Offsets ELSE {0}

Request(method, key, body, query) ==
    [method |-> method, key |-> key, body |-> body, query |-> query]

NoRequest == Request("none", <<>>, <<>>, <<>>)

Requests ==
    {Request("POST", <<>>, b, <<>>) : b \in PostBodies}
    \cup {Request("PUT", k, b, <<>>) : k \in PathKeys, b \in PutBodies}
    \cup {Request("DELETE", k, <<>>, <<>>) : k \in PathKeys}
    \cup {Request("GET", <<>>, <<>>, q) : q \in Queries}

\* rows this service can have written: appended by POST, then updated by PUT
Row0 == AsRow(PostData(BodyExample, SliceLast(s0, 6), 0))
Row42 == AsRow(PostData(BodySrNo42, s0, 0))
Row42b == ApplyUpdate("app", Row42, BodyVolume)

InitStores == {<<>>, <<Row42, Row0, Row42b>>}

Procs == {1, 2}

InFlight(p) == pc[p] \notin {"idle", "done"}

\* a handler's locals, and what the model remembers of its run: data is
\* bookData, idx and row the located row and its position, gen whether
\* generateBackendSrNo was called, threw the call that threw ("" if none),
\* pre the rows as the handler last saw them (at arrival, then at getRows)
NoWork == [data |-> <<>>, gen |-> FALSE, idx |-> 0, row |-> <<>>, threw |-> "",
           pre |-> <<>>]

-----------------------------------------------------------------------------
(* The process starts: the module is about to be evaluated *)

Init ==
    /\ entry \in {"app", "index"}
    /\ process = "booting"
    /\ doc = "unset"
    /\ isLoaded = FALSE
    /\ store \in InitStores
    /\ pc = [p \in Procs |-> "idle"]
    /\ req = [p \in Procs |-> NoRequest]
    /\ work = [p \in Procs |-> NoWork]
    /\ resp = [p \in Procs |-> NoResp]
    /\ calls = [p \in Procs |-> <<>>]
    /\ alone = [p \in Procs |-> TRUE]
    /\ started = 0
    /\ fn = [kind |-> "none"]

\* the module-level sheet setup: the credentials parse (configOk) or the try
\* block throws
Boot ==
    /\ process = "booting"
    /\ \E configOk \in BOOLEAN :
          /\ doc' = BootDoc(configOk)
          /\ process' = BootProcess(entry, configOk)
    /\ UNCHANGED <<entry, isLoaded, store, pc, req, work, resp, calls, alone,
                   started, fn>>

-----------------------------------------------------------------------------
(* The handlers, one action per stretch between two awaited calls on the rows *)

\* slot p moves on
Move(p, newpc, newwork, newresp, newcalls) ==
    /\ pc' = [pc EXCEPT ![p] = newpc]
    /\ work' = [work EXCEPT ![p] = newwork]
    /\ resp' = [resp EXCEPT ![p] = newresp]
    /\ calls' = [calls EXCEPT ![p] = newcalls]

\* the awaited call `call` of p's handler throws: its catch block runs
Catch(p, call) ==
    Move(p, "done", [work[p] EXCEPT !.threw = call],
         CatchResponse(entry, req[p].method, IOError), calls[p])

\* loadSheet: "throw" (doc is null), "loadInfo" (awaits doc.loadInfo()) or
\* "sheet" (returns the sheet at once)
loadSheet(e, d, loaded) ==
    IF e = "app"
    THEN IF d = "null" THEN "throw"
         ELSE IF ~loaded THEN "loadInfo" ELSE "sheet"
    ELSE "loadInfo"

\* the handler of request r from the return of loadSheet to its first call on
\* the rows, or to its response: where it stands then, its locals, its
\* response and the calls it issued
AfterLoad(r, nowString, offset) ==
    IF r.method \in {"POST", "PUT"} /\ Missing(r.body) # <<>>
    THEN [pc |-> "done", work |-> NoWork, resp |-> Resp400(Missing(r.body)),
          calls |-> <<>>]
    ELSE IF r.method = "POST"
    THEN [pc |-> "addRow",
          work |-> [NoWork EXCEPT !.data = PostData(r.body, nowString, offset),
                                  !.gen = UsesFallback(r.body)],
          resp |-> NoResp, calls |-> <<"addRow">>]
    ELSE [pc |-> "getRows", work |-> NoWork, resp |-> NoResp,
          calls |-> <<"getRows">>]

\* a request arrives and its handler runs through loadSheet (doc.loadInfo()
\* included, which touches no row) up to its first call on the rows.  The
\* slots of the requests already answered are cleared: they are history.
Start(p, r) ==
    /\ process = "running"
    /\ ~InFlight(p)
    /\ \A q \in Procs : q < p => InFlight(q)
    /\ started < MaxRequests
    /\ started' = started + 1
    /\ req' = [q \in Procs |-> IF q = p THEN r
                               ELSE IF InFlight(q) THEN req[q] ELSE NoRequest]
    /\ alone' = [q \in Procs |->
                    IF q = p THEN \A o \in Procs \ {p} : ~InFlight(o)
                    ELSE IF InFlight(q) THEN FALSE ELSE TRUE]
    /\ LET Clear(f, blank) == [q \in Procs |->
                                  IF InFlight(q) THEN f[q] ELSE blank]
           Slot(newpc, newwork, newresp, newcalls) ==
               /\ pc' = [Clear(pc, "idle") EXCEPT ![p] = newpc]
               /\ work' = [Clear(work, NoWork) EXCEPT
                              ![p] = [newwork EXCEPT !.pre = store]]
               /\ resp' = [Clear(resp, NoResp) EXCEPT ![p] = newresp]
               /\ calls' = [Clear(calls, <<>>) EXCEPT ![p] = newcalls]
           how == loadSheet(entry, doc, isLoaded)
       IN  \/ /\ how = "throw"
              /\ Slot("done", [NoWork EXCEPT !.threw = "loadSheet"],
                      CatchResponse(entry, r.method, InitError), <<>>)
              /\ UNCHANGED isLoaded
           \/ /\ how = "loadInfo"
              /\ Slot("done", [NoWork EXCEPT !.threw = "loadInfo"],
                      CatchResponse(entry, r.method, IOError), <<"loadInfo">>)
              /\ UNCHANGED isLoaded
           \/ /\ how \in {"loadInfo", "sheet"}
              /\ isLoaded' = TRUE
              /\ \E nowString \in ClocksRead(r), offset \in OffsetsRead(r) :
                    LET t == AfterLoad(r, nowString, offset)
                    IN  Slot(t.pc, t.work, t.resp,
                             (IF how = "loadInfo" THEN <<"loadInfo">> ELSE <<>>)
                                \o t.calls)
    /\ UNCHANGED <<entry, process, doc, store, fn>>

\* AddRowReturn as an upsert: a record whose SrNo, as a string, equals the new
\* record's is overwritten; the record is appended only when there is none
AddRowReturnUpsert(p) ==
    /\ pc[p] = "addRow"
    /\ \/ /\ LET i == FindRow(store, ToStr(Field(work[p].data, "SrNo")))
             IN  store' = IF i = 0 THEN Append(store, AsRow(work[p].data))
                          ELSE [store EXCEPT ![i] = AsRow(work[p].data)]
          /\ Move(p, "done", work[p], Resp201(Field(work[p].data, "SrNo")),
                  calls[p])
       \/ UNCHANGED store /\ Catch(p, "addRow")
    /\ UNCHANGED <<entry, process, doc, isLoaded, req, alone, started, fn>>

\* sheet.addRow(bookData) returns or throws
AddRowReturn(p) ==
    /\ pc[p] = "addRow"
    /\ \/ /\ store' = Append(store, AsRow(work[p].data))
          /\ Move(p, "done", work[p], Resp201(Field(work[p].data, "SrNo")),
                  calls[p])
       \/ UNCHANGED store /\ Catch(p, "addRow")
    /\ UNCHANGED <<entry, process, doc, isLoaded, req, alone, started, fn>>

\* AfterRows with `await rowToUpdate.save()` inside the forEach callback: a
\* persist is issued after every set
AfterRowsSaveInLoop(e, r, w, rows) ==
    LET idx == FindRow(rows, r.key)
    IN  IF idx = 0
        THEN [pc |-> "done", work |-> w, resp |-> Resp(404), calls |-> <<>>]
        ELSE IF r.method = "PUT"
        THEN [pc |-> "save",
              work |-> [w EXCEPT !.idx = idx,
                                 !.row = ApplyUpdate(e, rows[idx], r.body)],
              resp |-> NoResp,
              calls |-> [i \in 1..(2 * Len(SetKeys(r.body))) |->
                            IF i % 2 = 1 THEN "set" ELSE "save"]]
        ELSE [pc |-> "delete", work |-> [w EXCEPT !.idx = idx], resp |-> NoResp,
              calls |-> <<"delete">>]

\* what the PUT and DELETE handlers do with the rows getRows returned
AfterRows(e, r, w, rows) ==
    LET idx == FindRow(rows, r.key)
    IN  IF idx = 0
        THEN [pc |-> "done", work |-> w, resp |-> Resp(404), calls |-> <<>>]
        ELSE IF r.method = "PUT"
        THEN [pc |-> "save",
              work |-> [w EXCEPT !.idx = idx,
                                 !.row = ApplyUpdate(e, rows[idx], r.body)],
              resp |-> NoResp,
              calls |-> [i \in 1..Len(SetKeys(r.body)) |-> "set"] \o <<"save">>]
        ELSE [pc |-> "delete", work |-> [w EXCEPT !.idx = idx], resp |-> NoResp,
              calls |-> <<"delete">>]

\* sheet.getRows() returns or throws, and the handler runs to its next call
GetRowsReturn(p) ==
    /\ pc[p] = "getRows"
    /\ \/ Catch(p, "getRows")
       \/ /\ req[p].method = "GET"
          /\ Move(p, "done", [work[p] EXCEPT !.pre = store],
                  Resp200Books(FilterBooks(MapBooks(entry, store), req[p].query)),
                  calls[p])
       \/ /\ req[p].method # "GET"
          /\ LET t == AfterRows(entry, req[p], [work[p] EXCEPT !.pre = store],
                                store)
             IN  Move(p, t.pc, t.work, t.resp, calls[p] \o t.calls)
    /\ UNCHANGED <<entry, process, doc, isLoaded, store, req, alone, started, fn>>

\* WriteRow taking the position for the sheet's row number, which counts the
\* header row: the row is written one position below
WriteRowBelow(rows, idx, row) ==
    IF idx + 1 <= Len(rows) THEN [rows EXCEPT ![idx + 1] = row]
    ELSE Append(rows, row)

\* the sheet after row.save() of the row read at position idx
WriteRow(rows, idx, row) ==
    IF idx <= Len(rows) THEN [rows EXCEPT ![idx] = row] ELSE Append(rows, row)

\* the sheet after row.delete() of the row read at position idx
RemoveRow(rows, idx) ==
    IF idx <= Len(rows)
    THEN SubSeq(rows, 1, idx - 1) \o SubSeq(rows, idx + 1, Len(rows))
    ELSE rows

\* rowToUpdate.save() returns or throws
SaveReturn(p) ==
    /\ pc[p] = "save"
    /\ \/ /\ store' = WriteRow(store, work[p].idx, work[p].row)
          /\ Move(p, "done", work[p], Resp(200), calls[p])
       \/ UNCHANGED store /\ Catch(p, "save")
    /\ UNCHANGED <<entry, process, doc, isLoaded, req, alone, started, fn>>

\* rowToDelete.delete() returns or throws
DeleteReturn(p) ==
    /\ pc[p] = "delete"
    /\ \/ /\ store' = RemoveRow(store, work[p].idx)
          /\ Move(p, "done", work[p], Resp(200), calls[p])
       \/ UNCHANGED store /\ Catch(p, "delete")
    /\ UNCHANGED <<entry, process, doc, isLoaded, req, alone, started, fn>>

Next ==
    \/ Boot
    \/ \E p \in Procs :
        \/ \E r \in Requests : Start(p, r)
        \/ AddRowReturn(p)
        \/ GetRowsReturn(p)
        \/ SaveReturn(p)
        \/ DeleteReturn(p)

Spec == Init /\ [][Next]_vars

-----------------------------------------------------------------------------
(* The update loop on its own: a located row and a body that passes the    *)
(* validation are drawn, and the forEach of the PUT handler is applied to   *)
(* the body's pairs in their order and in the reverse order                 *)

NormalizeValues ==
    {Undef, Null, Str(<<>>), Str(<<" ">>), Str(sAbc), Str(s42), Str(s120),
     Str(<<"4", "a">>), Num(0), Num(5), Num(42), Bool(TRUE), Bool(FALSE)}

NormalizeBodies ==
    {<<Pair("Class", Str(sI)), Pair(k1, v1), Pair("Book Price", v0),
       Pair(k2, v2), Pair("Book Name", Str(sBalbharati))>> :
        v0 \in {Str(s120), Str(sAbc), Num(42), Bool(TRUE)},
        k1 \in {"SrNo", "Volume"}, v1 \in NormalizeValues,
        k2 \in {"Writer", "Date", "rowIndex"}, v2 \in NormalizeValues}

Reverse(seq) == [i \in 1..Len(seq) |-> seq[Len(seq) + 1 - i]]

InitNormalize ==
    /\ entry \in {"app", "index"}
    /\ process = "running"
    /\ doc = "ready"
    /\ isLoaded = TRUE
    /\ store = <<Row42>>
    /\ pc = [p \in Procs |-> "idle"]
    /\ req = [p \in Procs |-> NoRequest]
    /\ work = [p \in Procs |-> NoWork]
    /\ resp = [p \in Procs |-> NoResp]
    /\ calls = [p \in Procs |-> <<>>]
    /\ alone = [p \in Procs |-> TRUE]
    /\ started = 0
    /\ \E body \in NormalizeBodies :
          fn = [kind |-> "normalize", body |-> body, done |-> FALSE,
                out |-> <<>>, rev |-> <<>>]

NormalizeStep ==
    /\ fn.kind = "normalize"
    /\ ~fn.done
    /\ Missing(fn.body) = <<>>
    /\ fn' = [fn EXCEPT !.done = TRUE,
                        !.out = ApplyUpdate(entry, store[1], fn.body),
                        !.rev = ApplyUpdate(entry, store[1], Reverse(fn.body))]
    /\ UNCHANGED <<entry, process, doc, isLoaded, store, pc, req, work, resp,
                   calls, alone, started>>

SpecNormalize == InitNormalize /\ [][NormalizeStep]_vars

-----------------------------------------------------------------------------
(* What the claims speak of *)

\* the calls that write to the store
WriteCalls == {"addRow", "set", "save", "delete"}

NoWriteCall(cs) == \A i \in 1..Len(cs) : cs[i] \notin WriteCalls

\* the required fields a payload misses, as the specification counts them: a
\* field is missing when absent, null, the empty string, 0 or false
MissingFieldsOf(body) ==
    LET absent(field) ==
            \/ ~HasKey(body, field)
            \/ Field(body, field) \in {Undef, Null, Str(<<>>), Num(0), Bool(FALSE)}
        pick(fields) == SelectSeq(fields, absent)
    IN  pick(<<"Class", "Book Name", "Book Price">>)

\* no record of rows has SrNo, as a string, equal to key
NoRecordWithKey(rows, key) ==
    \A i \in 1..Len(rows) : ToStr(Get(rows[i], "SrNo")) # key

Invalid(p) ==
    req[p].method \in {"POST", "PUT"} /\ MissingFieldsOf(req[p].body) # <<>>

C2_AlwaysNotFound ==
    \A p \in Procs :
        /\ pc[p] = "done"
        /\ req[p].method \in {"PUT", "DELETE"}
        /\ NoRecordWithKey(work[p].pre, req[p].key)
        /\ work[p].threw = ""
        => /\ resp[p].status = 404
           /\ NoWriteCall(calls[p])
           /\ alone[p] => store = work[p].pre

\* C2, amended: when no store call throws, DELETE is answered 404, and PUT is
\* answered 404 if its body passes the validation and 400 if not (the
\* validation runs before the lookup); in every case, a throwing call
\* included, nothing is written
C2_NotFoundOrInvalid ==
    \A p \in Procs :
        /\ pc[p] = "done"
        /\ req[p].method \in {"PUT", "DELETE"}
        /\ NoRecordWithKey(work[p].pre, req[p].key)
        => /\ work[p].threw = "" =>
                resp[p].status = IF Invalid(p) THEN 400 ELSE 404
           /\ NoWriteCall(calls[p])
           /\ alone[p] => store = work[p].pre

C2_Witness ==
    \E p \in Procs :
        /\ pc[p] = "done"
        /\ req[p].method = "PUT"
        /\ req[p].body = BodyVolume
        /\ work[p].pre # <<>>
        /\ NoRecordWithKey(work[p].pre, req[p].key)
        /\ resp[p].status = 404

\* C3: a successful PUT with no other request in flight changes, on the
\* located record, only the fields whose keys are in the body (rowIndex
\* excluded), and changes no other record
C3_UpdateFrame ==
    \A p \in Procs :
        /\ pc[p] = "done"
        /\ req[p].method = "PUT"
        /\ resp[p].status = 200
        /\ alone[p]
        => LET before == work[p].pre
               at == work[p].idx
               sent == Keys(req[p].body) \ {"rowIndex"}
           IN  /\ Len(store) = Len(before)
               /\ \A i \in 1..Len(before) : i # at => store[i] = before[i]
               /\ \A k \in DOMAIN before[at] \cup DOMAIN store[at] :
                     k \notin sent =>
                        /\ k \in DOMAIN before[at] /\ k \in DOMAIN store[at]
                        /\ store[at][k] = before[at][k]

C3_Witness ==
    \E p \in Procs :
        /\ pc[p] = "done"
        /\ req[p].method = "PUT"
        /\ req[p].body = BodyVolume
        /\ resp[p].status = 200
        /\ alone[p]
        /\ store # work[p].pre
        /\ Get(store[work[p].idx], "rowIndex") = Num(2)
        /\ Get(store[work[p].idx], "SrNo") = Num(42)
        /\ Len(store) = 3

\* normalizeField as the specification gives it
NormalizeFieldRef(key, value) ==
    IF key \in {"SrNo", "Volume", "Book Price"}
    THEN IF value \in {Null, Undef, Str(<<>>)} \/ ToNumber(value) = NaN
         THEN Num(0) ELSE ToNumber(value)
    ELSE IF value \in {Null, Undef} THEN Str(<<>>) ELSE Str(ToStr(value))

\* C4: every value the PUT handler sets equals normalizeField of the pair
\* ("abc" gives 0, "42" and 42 give 42 on a numeric key; 5 gives "5" on
\* another key), whatever the other pairs and whatever the order of the keys
C4_SetValuesNormalized ==
    (fn.kind = "normalize" /\ fn.done) =>
        /\ \A i \in 1..Len(fn.body) :
              LET key == fn.body[i].k
                  value == fn.body[i].v
                  set == Get(fn.out, key)
              IN  key # "rowIndex" =>
                    /\ set = NormalizeFieldRef(key, value)
                    /\ key \in {"SrNo", "Volume", "Book Price"} =>
                          /\ value \in {Null, Undef, Str(<<>>), Str(sAbc)}
                                => set = Num(0)
                          /\ value \in {Str(s42), Num(42)} => set = Num(42)
                    /\ key \notin {"SrNo", "Volume", "Book Price"} =>
                          /\ value \in {Null, Undef} => set = Str(<<>>)
                          /\ value = Num(5) => set = Str(<<"5">>)
        /\ fn.rev = fn.out

C4_Witness ==
    /\ fn.kind = "normalize"
    /\ fn.done
    /\ Field(fn.body, "Volume") = Str(sAbc)
    /\ Field(fn.body, "Writer") = Num(5)
    /\ Field(fn.body, "Book Price") = Num(42)
    /\ Get(fn.out, "Volume") = Num(0)
    /\ Get(fn.out, "Writer") = Str(<<"5">>)
    /\ Get(fn.out, "Book Price") = Num(42)

IsNumber(v) == v.t = "number"
IsString(v) == v.t = "string"

\* a record holds each of SrNo, Volume, Book Price as a number and every
\* other field as a string
WellTyped(rec) ==
    /\ \A k \in {"SrNo", "Volume", "Book Price"} : IsNumber(Get(rec, k))
    /\ \A k \in DOMAIN rec \ {"SrNo", "Volume", "Book Price"} : IsString(rec[k])

\* C5: the record POST appends holds SrNo, Volume and Book Price as numbers
\* and every other field as a string, and so does every field PUT sets
C5_CreateAndUpdateNormalized ==
    \A p \in Procs :
        /\ (req[p].method = "POST" /\ resp[p].status = 201)
              => WellTyped(AsRow(work[p].data))
        /\ (req[p].method = "PUT" /\ work[p].idx > 0) =>
              \A k \in Keys(req[p].body) \ {"rowIndex"} :
                  IF k \in {"SrNo", "Volume", "Book Price"}
                  THEN IsNumber(work[p].row[k]) ELSE IsString(work[p].row[k])

\* C6: after the example's POST has created the record (its SrNo assigned by
\* the fallback), the example's PUT on that SrNo is answered 200 and the
\* record then shows Book Price 0 and Volume 0
C6_ExampleScenario ==
    \A p \in Procs :
        /\ pc[p] = "done"
        /\ req[p].method = "PUT"
        /\ req[p].body = BodyExamplePut
        /\ work[p].threw = ""
        /\ alone[p]
        /\ \E nowString \in Clocks, offset \in Offsets :
              /\ work[p].pre = <<AsRow(PostData(BodyExample, nowString, offset))>>
              /\ ToStr(generateBackendSrNo(nowString, offset)) = req[p].key
        => /\ resp[p].status = 200
           /\ Len(store) = 1
           /\ Get(store[1], "Book Price") = Num(0)
           /\ Get(store[1], "Volume") = Num(0)

\* C7: a failed store initialization does not end the process; the failure
\* stays, and every request is then answered 500 with the diagnostic
\* message, without any store call
C7_InitFailureKeepsServing ==
    /\ process # "exited"
    /\ doc = "null" =>
          \A p \in Procs :
              /\ ~InFlight(p)
              /\ pc[p] = "done" =>
                    resp[p] = Resp500(InitError) /\ calls[p] = <<>>

\* C8: a handler that has finished has answered, and when one of its store
\* calls threw it has answered 500 with the error's message
C8_EveryRequestAnswered ==
    \A p \in Procs :
        pc[p] = "done" =>
            /\ resp[p].status # 0
            /\ work[p].threw # "" =>
                  resp[p].status = 500 /\ resp[p].error \in {InitError, IOError}

\* C9: the key generateBackendSrNo returns is an integer that is at least 1
C9_FallbackPositive ==
    \A p \in Procs :
        work[p].gen =>
            /\ IsNumber(Field(work[p].data, "SrNo"))
            /\ Field(work[p].data, "SrNo").n >= 1

\* C10: a valid POST whose body contains a SrNo (the number 0 included)
\* appends and answers exactly that SrNo, and does not call
\* generateBackendSrNo
C10_CallerSrNoKept ==
    \A p \in Procs :
        /\ req[p].method = "POST"
        /\ HasKey(req[p].body, "SrNo")
        /\ pc[p] \in {"addRow", "done"}
        /\ MissingFieldsOf(req[p].body) = <<>>
        /\ work[p].threw = ""
        => /\ ~work[p].gen
           /\ Field(work[p].data, "SrNo") = Field(req[p].body, "SrNo")
           /\ resp[p].status = 201 =>
                 /\ resp[p].srNo = Field(req[p].body, "SrNo")
                 /\ Get(store[Len(store)], "SrNo") = Field(req[p].body, "SrNo")
                    \/ ~alone[p]

\* C11: rowIndex is never written to the store: the record a POST hands to
\* addRow has no rowIndex key, and the row a PUT persists has, under
\* rowIndex, the value the row had when it was read
C11_RowIndexNeverWritten ==
    \A p \in Procs :
        /\ req[p].method = "POST" /\ pc[p] \in {"addRow", "done"}
           /\ "addRow" \in {calls[p][i] : i \in 1..Len(calls[p])}
           => "rowIndex" \notin DOMAIN AsRow(work[p].data)
        /\ req[p].method = "PUT" /\ work[p].idx # 0
           => /\ "rowIndex" \notin {SetKeys(req[p].body)[i] :
                                      i \in 1..Len(SetKeys(req[p].body))}
              /\ Get(work[p].row, "rowIndex")
                    = Get(work[p].pre[work[p].idx], "rowIndex")

\* the rows after request r, a PUT, has run alone on rows
PutAlone(e, rows, r) ==
    LET i == FindRow(rows, r.key)
    IN  IF Missing(r.body) # <<>> \/ i = 0 THEN rows
        ELSE [rows EXCEPT ![i] = ApplyUpdate(e, rows[i], r.body)]

\* p and q are two PUTs to the same SrNo that were in flight together, were
\* handed the same rows by getRows, and have both answered 200
BothPutSameRows(p, q) ==
    /\ p # q
    /\ req[p].method = "PUT" /\ req[q].method = "PUT"
    /\ req[p].key = req[q].key
    /\ pc[p] = "done" /\ pc[q] = "done"
    /\ resp[p].status = 200 /\ resp[q].status = 200
    /\ work[p].pre = work[q].pre

\* the rows are those p read, with the located row replaced by what p's body
\* alone makes of it
LastPersisted(p) ==
    store = [work[p].pre EXCEPT
                ![work[p].idx] = ApplyUpdate(entry, work[p].pre[work[p].idx],
                                             req[p].body)]

\* C12: two concurrent PUTs to the same SrNo are not serialized: when both
\* read the rows before either persisted and both answered 200, the record is
\* the one a single request built from the rows it read; nothing of the
\* other request's update is merged into it
C12_LastPersistWins ==
    \A p, q \in Procs :
        BothPutSameRows(p, q) => LastPersisted(p) \/ LastPersisted(q)

\* both answered 200, the record is q's, a field p set is lost, and the rows
\* are the outcome of neither serial order
C12_Witness ==
    \E p, q \in Procs :
        /\ BothPutSameRows(p, q)
        /\ ~alone[p] /\ ~alone[q]
        /\ LastPersisted(q)
        /\ \E i \in 1..Len(SetKeys(req[p].body)) :
              LET k == SetKeys(req[p].body)[i]
              IN  /\ Get(work[p].row, k) # Get(work[p].pre[work[p].idx], k)
                  /\ Get(store[work[q].idx], k) # Get(work[p].row, k)
        /\ store # PutAlone(entry, PutAlone(entry, work[p].pre, req[p]), req[q])
        /\ store # PutAlone(entry, PutAlone(entry, work[p].pre, req[q]), req[p])

\* how many times the call named c was issued in cs
Count(cs, c) == Cardinality({i \in 1..Len(cs) : cs[i] = c})

\* C13: a PUT that located a record has issued one set per payload key
\* (rowIndex excepted), all of them before its persist call, and exactly one
\* persist call; no request issues an append, a persist or a delete more than
\* once, and a request whose write failed is over
C13_SetsThenOnePersist ==
    \A p \in Procs :
        /\ \A c \in {"addRow", "save", "delete"} : Count(calls[p], c) <= 1
        /\ req[p].method = "PUT" /\ work[p].idx # 0
           => /\ Count(calls[p], "save") = 1
              /\ Count(calls[p], "set") = Len(SetKeys(req[p].body))
              /\ \A i, j \in 1..Len(calls[p]) :
                    calls[p][i] = "set" /\ calls[p][j] = "save" => i < j
        /\ work[p].threw \in {"addRow", "save", "delete"}
           => pc[p] = "done" /\ Count(calls[p], work[p].threw) = 1

\* a PUT set several fields, its persist failed, and it was not issued again
C13_Witness ==
    \E p \in Procs :
        /\ req[p].method = "PUT"
        /\ pc[p] = "done"
        /\ work[p].threw = "save"
        /\ Count(calls[p], "set") >= 2
        /\ calls[p][Len(calls[p])] = "save"
        /\ Count(calls[p], "save") = 1

\* the record at position i has SrNo, as a string, equal to key
HasKeyAt(rows, i, key) == ToStr(Get(rows[i], "SrNo")) = key

\* C14: the record a PUT or DELETE locates is the first, in enumeration
\* order, whose SrNo as a string equals the path key; a PUT that ran alone
\* changed that record only and a DELETE that ran alone removed that record
\* only, so every later record with the same SrNo is as it was
C14_FirstMatchOnly ==
    \A p \in Procs :
        LET rows == work[p].pre
            idx == work[p].idx
        IN  /\ req[p].method \in {"PUT", "DELETE"} /\ idx # 0
               => /\ idx \in 1..Len(rows)
                  /\ HasKeyAt(rows, idx, req[p].key)
                  /\ \A j \in 1..(idx - 1) : ~HasKeyAt(rows, j, req[p].key)
            /\ pc[p] = "done" /\ resp[p].status = 200 /\ alone[p]
               => /\ req[p].method = "PUT"
                     => /\ Len(store) = Len(rows)
                        /\ store[idx] = work[p].row
                        /\ \A i \in 1..Len(rows) : i # idx => store[i] = rows[i]
                  /\ req[p].method = "DELETE"
                     => /\ Len(store) = Len(rows) - 1
                        /\ \A i \in 1..(idx - 1) : store[i] = rows[i]
                        /\ \A i \in idx..Len(store) : store[i] = rows[i + 1]

\* a DELETE of a SrNo that two records share removed the first of them, and
\* the later one is still in the store
C14_Witness ==
    \E p \in Procs :
        /\ req[p].method = "DELETE"
        /\ pc[p] = "done" /\ resp[p].status = 200 /\ alone[p]
        /\ \E j \in (work[p].idx + 1)..Len(work[p].pre) :
              /\ HasKeyAt(work[p].pre, j, req[p].key)
              /\ store[j - 1] = work[p].pre[j]
        /\ Len(store) = Len(work[p].pre) - 1

\* no two records of rows have the same SrNo, as strings
UniqueSrNo(rows) ==
    \A i, j \in 1..Len(rows) :
        ToStr(Get(rows[i], "SrNo")) = ToStr(Get(rows[j], "SrNo")) => i = j

\* C15: SrNo uniqueness is not enforced.  A valid POST whose calls all
\* returned is answered 201, and when it ran alone the store is the rows as
\* they were plus the new record at the end, also when a record with that
\* SrNo was there.  A PUT that ran alone and whose body has a SrNo leaves the
\* located record with that SrNo, normalized, whatever the path key and the
\* other records' SrNo
C15_NoUniquenessCheck ==
    \A p \in Procs :
        /\ /\ req[p].method = "POST"
           /\ Missing(req[p].body) = <<>>
           /\ pc[p] = "done"
           /\ work[p].threw = ""
           => /\ resp[p].status = 201
              /\ alone[p] => store = Append(work[p].pre, AsRow(work[p].data))
        /\ /\ req[p].method = "PUT"
           /\ pc[p] = "done" /\ resp[p].status = 200 /\ alone[p]
           /\ HasKey(req[p].body, "SrNo")
           => Get(store[work[p].idx], "SrNo")
                 = normalizeOf(entry, "SrNo", Field(req[p].body, "SrNo"))

\* the store held records with distinct SrNo, a POST with the SrNo of one of
\* them was answered 201, and the store now holds that record and a second
\* one with the same SrNo
C15_Witness ==
    \E p \in Procs :
        /\ req[p].method = "POST"
        /\ pc[p] = "done" /\ resp[p].status = 201 /\ alone[p]
        /\ work[p].pre # <<>>
        /\ UniqueSrNo(work[p].pre)
        /\ \E i \in 1..Len(work[p].pre) :
              /\ HasKeyAt(work[p].pre, i, ToStr(Field(work[p].data, "SrNo")))
              /\ store[i] = work[p].pre[i]
        /\ Len(store) = Len(work[p].pre) + 1
        /\ ~UniqueSrNo(store)

\* C16: when a PUT of SrNo k runs with a concurrent DELETE of SrNo k and its
\* persist returns with the answer 200, the store held, just before that
\* persist, a record with SrNo k at the position the PUT had located, and the
\* persist changed that record only
C16_NoStalePersist ==
    [][\A p, q \in Procs :
          /\ p # q
          /\ req[p].method = "PUT" /\ req[q].method = "DELETE"
          /\ req[q].key = req[p].key
          /\ pc[p] = "save" /\ pc'[p] = "done"
          /\ resp'[p].status = 200
          => /\ work[p].idx <= Len(store)
             /\ HasKeyAt(store, work[p].idx, req[p].key)
             /\ store' = [store EXCEPT ![work[p].idx] = work[p].row]]_vars

====
